---- MODULE Spec2Model ----
(***************************************************************************)
(* Model of SanmokuRust (src/src/main.rs): a terminal tic-tac-toe game in  *)
(* Model-View-Update form.  The state is the `model` threaded through the  *)
(* loop of main(), the message handed from view to update, and the         *)
(* position of main().  History variables record the model before the      *)
(* last update and count the calls made.                                   *)
(***************************************************************************)
EXTENDS Integers, Sequences, FiniteSets, TLC

VARIABLES model, msg, pc, prev, updates, clicks, final_views,
          last_read, arg, ret

\* last_read is the result of the last read_line of a prompt; arg and ret
\* are the argument and the result of a helper function called on its own
aux == <<last_read, arg, ret>>

vars == <<model, msg, pc, prev, updates, clicks, final_views, last_read, arg, ret>>

(***************************************************************************)
(* Data types                                                              *)
(***************************************************************************)
NumCells == 9

Indices == 0..(NumCells - 1)

User == "User"

Computer == "Computer"

Player == {User, Computer}

Nought == "Nought"

Cross == "Cross"

Unfilled == "Unfilled"

Cell == {Nought, Cross, Unfilled}

Board == [Indices -> Cell]

\* Option<Player>
None == <<>>

Some(p) == <<p>>

\* GameStatus
Draw == <<"Draw">>

NotFinished == <<"NotFinished">>

Settled(p) == <<"Settled", p>>

GameStatus == {Draw, NotFinished} \cup {Settled(p) : p \in Player}

Model == [first_player : {None} \cup {Some(p) : p \in Player},
          board : Board,
          status : GameStatus]

Model_new == [status |-> NotFinished,
              board |-> [i \in Indices |-> Unfilled],
              first_player |-> None]

\* Message
CellClicked(i) == <<"CellClicked", i>>

PlayerSelected(flag) == <<"PlayerSelected", flag>>

NoMessage == <<"NoMessage">>

Message == {CellClicked(i) : i \in Indices}
             \cup {PlayerSelected(b) : b \in BOOLEAN} \cup {NoMessage}

(***************************************************************************)
(* Helpers                                                                 *)
(***************************************************************************)
\* A Vec<usize> built by pushing distinct indices is modelled as the set of
\* its elements: the code only tests contains() on it, or shuffles it and
\* pops one element.
get_available_cells(board) == {i \in Indices : board[i] = Unfilled}

pattern == << <<0, 1, 2>>, <<3, 4, 5>>, <<6, 7, 8>>,
              <<0, 3, 6>>, <<1, 4, 7>>, <<2, 5, 8>>,
              <<0, 4, 8>>, <<2, 4, 6>> >>

\* has_bingo with the last triple mistyped as (2, 4, 7)
has_bingo_mistyped(indices) ==
    \E k \in 1..Len(pattern) :
        /\ pattern[k][1] \in indices
        /\ pattern[k][2] \in indices
        /\ (IF k = 8 THEN 7 ELSE pattern[k][3]) \in indices

has_bingo(indices) ==
    \E k \in 1..Len(pattern) :
        /\ pattern[k][1] \in indices
        /\ pattern[k][2] \in indices
        /\ pattern[k][3] \in indices

(***************************************************************************)
(* Update                                                                  *)
(***************************************************************************)
\* update_game_status without the check of the Cross line
update_game_status_nought_only(m) ==
    LET noughts == {i \in Indices : m.board[i] = Nought}
        num_unfilled == Cardinality({i \in Indices :
                            m.board[i] # Nought /\ m.board[i] # Cross})
    IN  IF has_bingo(noughts)
        THEN [m EXCEPT !.status =
                 Settled(IF m.first_player = Some(User) THEN User ELSE Computer)]
        ELSE IF num_unfilled = 0
        THEN [m EXCEPT !.status = Draw]
        ELSE m

\* update_game_status without the check of num_unfilled
update_game_status_no_draw(m) ==
    LET noughts == {i \in Indices : m.board[i] = Nought}
        crosses == {i \in Indices : m.board[i] = Cross}
    IN  IF has_bingo(noughts)
        THEN [m EXCEPT !.status =
                 Settled(IF m.first_player = Some(User) THEN User ELSE Computer)]
        ELSE IF has_bingo(crosses)
        THEN [m EXCEPT !.status =
                 Settled(IF m.first_player = Some(User) THEN Computer ELSE User)]
        ELSE m

update_game_status(m) ==
    LET noughts == {i \in Indices : m.board[i] = Nought}
        crosses == {i \in Indices : m.board[i] = Cross}
        num_unfilled == Cardinality({i \in Indices :
                            m.board[i] # Nought /\ m.board[i] # Cross})
    IN  IF has_bingo(noughts)
        THEN [m EXCEPT !.status =
                 Settled(IF m.first_player = Some(User) THEN User ELSE Computer)]
        ELSE IF has_bingo(crosses)
        THEN [m EXCEPT !.status =
                 Settled(IF m.first_player = Some(User) THEN Computer ELSE User)]
        ELSE IF num_unfilled = 0
        THEN [m EXCEPT !.status = Draw]
        ELSE m

\* update_board_helper leaving the loop once the selected cell is written
update_board_helper_break(board, selected_index, cell) ==
    [i \in Indices |-> IF i = selected_index THEN cell
                       ELSE IF i < selected_index THEN board[i] ELSE Unfilled]

\* selected_index is a usize: an index outside 0..8 matches no i of the loop
update_board_helper(board, selected_index, cell) ==
    [i \in Indices |-> IF i = selected_index THEN cell ELSE board[i]]

\* update_board_with_user_move building the new model from Model::new()
update_board_with_user_move_from_new(m, selected_cell) ==
    LET user_cell_type == IF m.first_player = Some(User) THEN Nought ELSE Cross
        new_board == update_board_helper(m.board, selected_cell, user_cell_type)
    IN  update_game_status([Model_new EXCEPT !.board = new_board])

update_board_with_user_move(m, selected_cell) ==
    LET user_cell_type == IF m.first_player = Some(User) THEN Nought ELSE Cross
        new_board == update_board_helper(m.board, selected_cell, user_cell_type)
    IN  update_game_status([m EXCEPT !.board = new_board])

\* the computer move writing a cell of the full board when none is available
update_board_with_random_play_computer_move_overwrite(m) ==
    LET availables == get_available_cells(m.board)
        computer_cell_type == IF m.first_player = Some(User) THEN Cross ELSE Nought
    IN  {update_game_status(new_model) : new_model \in
            {[m EXCEPT !.board =
                 update_board_helper(m.board, i, computer_cell_type)] :
             i \in IF Cardinality(availables) > 0 THEN availables ELSE Indices}}

\* the computer move without the shuffle: pop() takes the highest index
update_board_with_random_play_computer_move_no_shuffle(m) ==
    LET availables == get_available_cells(m.board)
        computer_cell_type == IF m.first_player = Some(User) THEN Cross ELSE Nought
    IN  IF Cardinality(availables) > 0
        THEN {update_game_status(new_model) : new_model \in
                 {[m EXCEPT !.board =
                      update_board_helper(m.board, i, computer_cell_type)] :
                  i \in {j \in availables : \A k \in availables : k <= j}}}
        ELSE {update_game_status(m)}

\* the computer move skipped when a single cell is left (len() > 1)
update_board_with_random_play_computer_move_skip_last(m) ==
    LET availables == get_available_cells(m.board)
        computer_cell_type == IF m.first_player = Some(User) THEN Cross ELSE Nought
    IN  IF Cardinality(availables) > 1
        THEN {update_game_status(new_model) : new_model \in
                 {[m EXCEPT !.board =
                      update_board_helper(m.board, i, computer_cell_type)] :
                  i \in availables}}
        ELSE {update_game_status(m)}

\* The shuffle followed by pop() yields any element of availables, so the
\* result is the set of models the call can return.
update_board_with_random_play_computer_move(m) ==
    LET availables == get_available_cells(m.board)
        computer_cell_type == IF m.first_player = Some(User) THEN Cross ELSE Nought
    IN  IF Cardinality(availables) > 0
        THEN {update_game_status(new_model) : new_model \in
                 {[m EXCEPT !.board =
                      update_board_helper(m.board, i, computer_cell_type)] :
                  i \in availables}}
        ELSE {update_game_status(m)}

\* the user's move is computed once and handed to the computer's move
update_board(m, selected_cell) ==
    UNION {update_board_with_random_play_computer_move(user_moved) :
              user_moved \in {update_board_with_user_move(m, selected_cell)}}

\* update_player_selection with the two branches exchanged
update_player_selection_swapped(m, is_player_first) ==
    IF ~is_player_first
    THEN {[m EXCEPT !.first_player = Some(Computer)]}
    ELSE update_board_with_random_play_computer_move(
             [m EXCEPT !.first_player = Some(User)])

update_player_selection(m, is_player_first) ==
    IF is_player_first
    THEN {[m EXCEPT !.first_player = Some(User)]}
    ELSE update_board_with_random_play_computer_move(
             [m EXCEPT !.first_player = Some(Computer)])

update(m, message) ==
    IF message[1] = "CellClicked" THEN update_board(m, message[2])
    ELSE IF message[1] = "PlayerSelected" THEN update_player_selection(m, message[2])
    ELSE {m}

(***************************************************************************)
(* View: the set of messages a call can return, over every sequence of     *)
(* input lines that ends the prompt.                                       *)
(***************************************************************************)
\* returns true or false, whichever the first accepted line says
ask_user_to_be_first == BOOLEAN

\* ask_move without the available.contains(&i) test
ask_move_unchecked(available) == Indices

\* returns only an index contained in available; with none it never returns
ask_move(available) == {i \in Indices : i \in available}

select_first_player_view ==
    {PlayerSelected(do_user_play_first) : do_user_play_first \in ask_user_to_be_first}

view(m) ==
    IF m.status = Draw THEN {NoMessage}
    ELSE IF m.status[1] = "Settled" THEN {NoMessage}
    ELSE IF m.first_player = None THEN select_first_player_view
    ELSE {CellClicked(x) : x \in ask_move(get_available_cells(m.board))}

(***************************************************************************)
(* Driver: main()                                                          *)
(***************************************************************************)
\* no line has been read, no helper has been called
NoRead == <<"NoRead">>

AuxIdle ==
    /\ last_read = NoRead
    /\ arg = <<>>
    /\ ret = <<>>

Init ==
    /\ model = Model_new
    /\ msg = NoMessage
    /\ pc = "loop"
    /\ prev = Model_new
    /\ updates = 0
    /\ clicks = 0
    /\ final_views = 0
    /\ AuxIdle

\* while let GameStatus::NotFinished = model.status
LoopCond(m) == m.status = NotFinished

\* let msg = view(model);
View ==
    /\ pc = "loop"
    /\ LoopCond(model)
    /\ \E message \in view(model) : msg' = message
    /\ pc' = "update"
    /\ UNCHANGED <<model, prev, updates, clicks, final_views>>
    /\ UNCHANGED aux

\* model = update(model, msg);
Update ==
    /\ pc = "update"
    /\ \E new_model \in update(model, msg) : model' = new_model
    /\ prev' = model
    /\ updates' = updates + 1
    /\ clicks' = IF msg[1] = "CellClicked" THEN clicks + 1 ELSE clicks
    /\ pc' = "loop"
    /\ UNCHANGED <<msg, final_views>>
    /\ UNCHANGED aux

\* view(model); after the loop
FinalView ==
    /\ pc = "loop"
    /\ ~LoopCond(model)
    /\ \E message \in view(model) : msg' = message
    /\ final_views' = final_views + 1
    /\ pc' = "done"
    /\ UNCHANGED <<model, prev, updates, clicks>>
    /\ UNCHANGED aux

Next == View \/ Update \/ FinalView

Spec == Init /\ [][Next]_vars

TypeOK ==
    /\ model \in Model
    /\ prev \in Model
    /\ msg \in Message
    /\ pc \in {"loop", "update", "done", "called", "classify", "classified",
              "has_bingo", "has_bingo_ret", "helper", "helper_ret",
              "ask_first", "ask_move"}
    /\ updates \in Nat
    /\ clicks \in Nat
    /\ final_views \in Nat

(***************************************************************************)
(* update applied to a terminal model the driver has reached, with any     *)
(* Message.  main() never makes this call; it is the call the absorption   *)
(* property of update speaks about.                                        *)
(***************************************************************************)
UpdateOnTerminal ==
    /\ pc = "loop"
    /\ ~LoopCond(model)
    /\ \E message \in Message :
          /\ msg' = message
          /\ \E new_model \in update(model, message) : model' = new_model
    /\ prev' = model
    /\ pc' = "called"
    /\ UNCHANGED <<updates, clicks, final_views>>
    /\ UNCHANGED aux

SpecTerminal == Init /\ [][Next \/ UpdateOnTerminal]_vars

(***************************************************************************)
(* update_game_status as a function of an arbitrary Model value            *)
(***************************************************************************)
InitStatus ==
    /\ model \in Model
    /\ msg = NoMessage
    /\ pc = "classify"
    /\ prev = Model_new
    /\ updates = 0
    /\ clicks = 0
    /\ final_views = 0
    /\ AuxIdle

Classify ==
    /\ pc = "classify"
    /\ model' = update_game_status(model)
    /\ prev' = model
    /\ pc' = "classified"
    /\ UNCHANGED <<msg, updates, clicks, final_views>>
    /\ UNCHANGED aux

SpecStatus == InitStatus /\ [][Classify]_vars

(***************************************************************************)
(* Vocabulary of the properties                                            *)
(***************************************************************************)
Lines == {{0, 1, 2}, {3, 4, 5}, {6, 7, 8},
          {0, 3, 6}, {1, 4, 7}, {2, 5, 8},
          {0, 4, 8}, {2, 4, 6}}

Completed(board, mark) == \E l \in Lines : \A i \in l : board[i] = mark

AnyCompleted(board) == Completed(board, Nought) \/ Completed(board, Cross)

Full(board) == \A i \in Indices : board[i] # Unfilled

Changed(b1, b2) == {i \in Indices : b1[i] # b2[i]}

IsTerminal(status) == status # NotFinished

UserMark(m) == IF m.first_player = Some(User) THEN Nought ELSE Cross

ComputerMark(m) == IF m.first_player = Some(User) THEN Cross ELSE Nought

\* the driver has just returned from update(prev, CellClicked(msg[2]))
AfterClick == pc = "loop" /\ updates > 0 /\ msg[1] = "CellClicked"

\* the model as it is right after the user's mark is placed
AfterUserMark == update_board_with_user_move(prev, msg[2])

(***************************************************************************)
(* C1: when the status recomputed right after the user's mark is terminal, *)
(* update returns that model without a computer move: exactly the clicked  *)
(* cell differs from the input board.                                      *)
(***************************************************************************)
C1_NoComputerMoveAfterTerminal ==
    (AfterClick /\ IsTerminal(AfterUserMark.status))
        => /\ model = AfterUserMark
           /\ Changed(prev.board, model.board) = {msg[2]}

(***************************************************************************)
(* C2: in every state of the driver the board never holds a completed line *)
(* of Nought and a completed line of Cross at the same time.               *)
(***************************************************************************)
C2_NoDoubleBingo ==
    ~(Completed(model.board, Nought) /\ Completed(model.board, Cross))

(***************************************************************************)
(* C3: update on a model whose status is Draw or Settled returns the input *)
(* model, for every Message.                                               *)
(***************************************************************************)
C3_TerminalAbsorbing ==
    pc = "called" => model = prev

(***************************************************************************)
(* C4: update_game_status gives Settled(first_player) on a Nought line,    *)
(* else Settled(the other player) on a Cross line, else Draw on a board    *)
(* with no Unfilled cell, else NotFinished, and touches nothing else.      *)
(***************************************************************************)
Other(p) == IF p = User THEN Computer ELSE User

Classification(board, first) ==
    IF Completed(board, Nought) THEN Settled(first)
    ELSE IF Completed(board, Cross) THEN Settled(Other(first))
    ELSE IF Full(board) THEN Draw
    ELSE NotFinished

C4_Classifies ==
    (pc = "classified" /\ prev.first_player # None)
        => /\ model.status = Classification(prev.board, prev.first_player[1])
           /\ model.board = prev.board
           /\ model.first_player = prev.first_player

(***************************************************************************)
(* C5: when the user's move leaves the status NotFinished, exactly two     *)
(* cells change from Unfilled to a mark: the clicked cell gets the user's  *)
(* mark and one other Unfilled cell the computer's; the rest is unchanged. *)
(***************************************************************************)
C5_TwoCellsChange ==
    (AfterClick /\ AfterUserMark.status = NotFinished)
        => \E j \in Indices \ {msg[2]} :
              /\ Changed(prev.board, model.board) = {msg[2], j}
              /\ prev.board[msg[2]] = Unfilled
              /\ prev.board[j] = Unfilled
              /\ model.board[msg[2]] = UserMark(prev)
              /\ model.board[j] = ComputerMark(prev)

C5_Witness ==
    /\ AfterClick
    /\ AfterUserMark.status = NotFinished
    /\ Cardinality(Changed(prev.board, model.board)) = 2
    /\ Cardinality({i \in Indices : model.board[i] = Unfilled}) = 0

(***************************************************************************)
(* C6: update(Model::new(), PlayerSelected(false)) gives first_player =     *)
(* Computer, exactly one non-Unfilled cell and status NotFinished;         *)
(* update(Model::new(), PlayerSelected(true)) gives first_player = User    *)
(* and a board that is still all Unfilled.                                 *)
(***************************************************************************)
AfterSelection == pc = "loop" /\ updates > 0 /\ prev = Model_new
                     /\ msg[1] = "PlayerSelected"

C6_PlayerSelection ==
    AfterSelection
        => IF msg[2]
           THEN /\ model.first_player = Some(User)
                /\ model.board = Model_new.board
           ELSE /\ model.first_player = Some(Computer)
                /\ Cardinality({i \in Indices : model.board[i] # Unfilled}) = 1
                /\ model.status = NotFinished

C6_Witness ==
    /\ AfterSelection
    /\ msg[2] = FALSE
    /\ model.first_player = Some(Computer)

(***************************************************************************)
(* C7: first_player is unset exactly in the models that precede the first  *)
(* update, and once set it keeps its value in every later model.           *)
(***************************************************************************)
FirstPlayerStep ==
    /\ (model.first_player = None) <=> (updates = 0)
    /\ (model'.first_player = None) <=> (updates' = 0)
    /\ model.first_player # None => model'.first_player = model.first_player

C7_FirstPlayerSetOnce == [][FirstPlayerStep]_vars

C7_Witness ==
    /\ updates >= 3
    /\ model.first_player = Some(Computer)
    /\ prev.first_player = Some(Computer)

(***************************************************************************)
(* C8: a cell that is not Unfilled keeps its mark in every later model.    *)
(***************************************************************************)
C8_CellsKeepMark ==
    [][\A i \in Indices :
          model.board[i] # Unfilled => model'.board[i] = model.board[i]]_vars

C8_Witness ==
    /\ AfterClick
    /\ updates >= 3
    /\ \E i \in Indices : prev.board[i] = Nought /\ model.board[i] = Nought
    /\ \E i \in Indices : prev.board[i] = Cross /\ model.board[i] = Cross

(***************************************************************************)
(* C9: in every model produced by update the status is the one the board   *)
(* determines: Settled iff a line is completed, Draw iff the board is full *)
(* with no completed line, NotFinished iff a cell is Unfilled and no line  *)
(* is completed.                                                           *)
(***************************************************************************)
C9_StatusFromBoard ==
    (pc = "loop" /\ updates > 0)
        => /\ model.status[1] = "Settled" <=> AnyCompleted(model.board)
           /\ model.status = Draw
                 <=> (Full(model.board) /\ ~AnyCompleted(model.board))
           /\ model.status = NotFinished
                 <=> (~Full(model.board) /\ ~AnyCompleted(model.board))

C9_Witness ==
    /\ pc = "loop"
    /\ updates > 0
    /\ model.status = Draw
    /\ Full(model.board)

(***************************************************************************)
(* C10: with every prompt answered the driver terminates: the status is    *)
(* terminal after the player-order update and at most 5 CellClicked        *)
(* updates, update is never called on a terminal model, and view is called *)
(* exactly once after the loop, on the terminal model.                     *)
(***************************************************************************)
\* every prompt is eventually answered, so the step main() is at is taken
LiveSpec == Spec /\ WF_vars(Next)

DriverSafe ==
    /\ clicks <= 5
    /\ updates > 0 => clicks = updates - 1
    /\ pc = "update" => model.status = NotFinished
    /\ final_views = IF pc = "done" THEN 1 ELSE 0
    /\ pc = "done" => IsTerminal(model.status)

C10_Terminates == []DriverSafe /\ <>(pc = "done")

C10_Witness ==
    /\ pc = "done"
    /\ clicks = 5
    /\ final_views = 1

(***************************************************************************)
(* has_bingo and update_board_helper as functions of arbitrary arguments   *)
(***************************************************************************)
DriverIdle ==
    /\ model = Model_new
    /\ msg = NoMessage
    /\ prev = Model_new
    /\ updates = 0
    /\ clicks = 0
    /\ final_views = 0
    /\ last_read = NoRead

InitBingo ==
    /\ DriverIdle
    /\ pc = "has_bingo"
    /\ arg \in SUBSET Indices
    /\ ret = <<>>

CallHasBingo ==
    /\ pc = "has_bingo"
    /\ ret' = has_bingo(arg)
    /\ pc' = "has_bingo_ret"
    /\ UNCHANGED <<model, msg, prev, updates, clicks, final_views, last_read, arg>>

SpecBingo == InitBingo /\ [][CallHasBingo]_vars

InitHelper ==
    /\ DriverIdle
    /\ pc = "helper"
    /\ arg \in Board \X Indices \X Cell
    /\ ret = <<>>

CallHelper ==
    /\ pc = "helper"
    /\ ret' = update_board_helper(arg[1], arg[2], arg[3])
    /\ pc' = "helper_ret"
    /\ UNCHANGED <<model, msg, prev, updates, clicks, final_views, last_read, arg>>

SpecHelper == InitHelper /\ [][CallHelper]_vars

(***************************************************************************)
(* C11: has_bingo is true iff the index set contains all three indices of  *)
(* one of the 8 lines; it is false for the empty set and for every         *)
(* 2-element subset of a line.                                             *)
(***************************************************************************)
C11_HasBingo ==
    pc = "has_bingo_ret"
        => /\ ret = (\E l \in Lines : l \subseteq arg)
           /\ arg = {} => ret = FALSE
           /\ (Cardinality(arg) = 2 /\ \E l \in Lines : arg \subseteq l)
                 => ret = FALSE

C11_Witness ==
    /\ pc = "has_bingo_ret"
    /\ arg = {1, 2, 4, 6}
    /\ ret = TRUE

(***************************************************************************)
(* C14: update_board_helper(board, i, mark) holds mark at index i and is   *)
(* equal to board at every other index.                                    *)
(***************************************************************************)
C14_SingleCellReplace ==
    pc = "helper_ret"
        => /\ DOMAIN ret = Indices
           /\ ret[arg[2]] = arg[3]
           /\ \A j \in Indices \ {arg[2]} : ret[j] = arg[1][j]

C14_Witness ==
    /\ pc = "helper_ret"
    /\ arg[2] = 4
    /\ arg[1][4] = Cross
    /\ arg[3] = Nought
    /\ ret[4] = Nought
    /\ ret[8] = Cross

(***************************************************************************)
(* The prompts of view, one read_line at a time.  A line is the sequence   *)
(* of its characters; "e'" stands for a character of two bytes in UTF-8.   *)
(***************************************************************************)
Err == <<"Err">>

Ok(s) == <<"Ok", s>>

\* what read_line can deliver: a failed read, the empty string of an ended
\* stream, and lines the user types
InputLines ==
    {Err, Ok(<<>>), Ok(<<"\n">>), Ok(<<"z", "\n">>), Ok(<<"e'", "\n">>),
     Ok(<<"y", "\n">>), Ok(<<"n", "\n">>), Ok(<<"4", "8", "\n">>)}
      \cup {Ok(<<d, "\n">>) :
               d \in {"0", "1", "2", "3", "4", "5", "6", "7", "8", "9"}}

ByteLen(c) == IF c = "e'" THEN 2 ELSE 1

get_user_input(read) == IF read = Err THEN None ELSE Some(read[2])

\* s.get(0..1): None when s is empty or byte 1 is not a character boundary
str_get_0_1(s) ==
    IF Len(s) = 0 THEN None
    ELSE IF ByteLen(s[1]) = 1 THEN Some(<<s[1]>>) ELSE None

Digits == <<"0", "1", "2", "3", "4", "5", "6", "7", "8", "9">>

\* s.parse::<usize>() on a string of one character
parse_usize(s) ==
    IF \E k \in 1..Len(Digits) : Digits[k] = s[1]
    THEN Some((CHOOSE k \in 1..Len(Digits) : Digits[k] = s[1]) - 1)
    ELSE None

Return(v) == <<"return", v>>

Retry == <<"retry">>

\* one turn of the loop of ask_user_to_be_first, `_ => return false`
ask_user_to_be_first_step_default_no(read) ==
    LET ans == get_user_input(read)
    IN  IF ans # None
        THEN LET first_letter == str_get_0_1(ans[1])
             IN  IF first_letter = Some(<<"y">>) THEN Return(TRUE)
                 ELSE Return(FALSE)
        ELSE Retry

\* one turn of the loop of ask_user_to_be_first
ask_user_to_be_first_step(read) ==
    LET ans == get_user_input(read)
    IN  IF ans # None
        THEN LET first_letter == str_get_0_1(ans[1])
             IN  IF first_letter = Some(<<"y">>) THEN Return(TRUE)
                 ELSE IF first_letter = Some(<<"n">>) THEN Return(FALSE)
                 ELSE Retry
        ELSE Retry

\* one turn of the loop of ask_move, without available.contains(&i)
ask_move_step_unchecked(available, read) ==
    LET s == get_user_input(read)
    IN  IF s # None
        THEN LET first == str_get_0_1(s[1])
                 ans == IF first = None THEN None ELSE parse_usize(first[1])
             IN  IF ans # None THEN Return(ans[1]) ELSE Retry
        ELSE Retry

\* one turn of the loop of ask_move
ask_move_step(available, read) ==
    LET s == get_user_input(read)
    IN  IF s # None
        THEN LET first == str_get_0_1(s[1])
                 ans == IF first = None THEN None ELSE parse_usize(first[1])
             IN  IF ans # None
                 THEN IF ans[1] \in available THEN Return(ans[1]) ELSE Retry
                 ELSE Retry
        ELSE Retry

\* view up to the prompt it enters
ViewEnter ==
    /\ pc = "loop"
    /\ LoopCond(model)
    /\ pc' = IF model.first_player = None THEN "ask_first" ELSE "ask_move"
    /\ last_read' = NoRead
    /\ UNCHANGED <<model, msg, prev, updates, clicks, final_views, arg, ret>>

\* select_first_player_view: a turn of the loop of ask_user_to_be_first
ReadFirst ==
    /\ pc = "ask_first"
    /\ \E read \in InputLines :
          /\ last_read' = read
          /\ LET step == ask_user_to_be_first_step(read)
             IN  IF step = Retry
                 THEN UNCHANGED <<pc, msg>>
                 ELSE /\ msg' = PlayerSelected(step[2])
                      /\ pc' = "update"
    /\ UNCHANGED <<model, prev, updates, clicks, final_views, arg, ret>>

\* view: a turn of the loop of ask_move(&get_available_cells(&model.board))
ReadMove ==
    /\ pc = "ask_move"
    /\ \E read \in InputLines :
          /\ last_read' = read
          /\ LET step == ask_move_step(get_available_cells(model.board), read)
             IN  IF step = Retry
                 THEN UNCHANGED <<pc, msg>>
                 ELSE /\ msg' = CellClicked(step[2])
                      /\ pc' = "update"
    /\ UNCHANGED <<model, prev, updates, clicks, final_views, arg, ret>>

NextInput == ViewEnter \/ ReadFirst \/ ReadMove \/ Update \/ FinalView

SpecInput == Init /\ [][NextInput]_vars

\* the first character of the line a read delivered, "" when there is none
FirstChar(read) ==
    IF read[1] = "Ok" /\ Len(read[2]) > 0 THEN read[2][1] ELSE ""

DigitValue == ("0" :> 0) @@ ("1" :> 1) @@ ("2" :> 2) @@ ("3" :> 3) @@ ("4" :> 4)
                @@ ("5" :> 5) @@ ("6" :> 6) @@ ("7" :> 7) @@ ("8" :> 8) @@ ("9" :> 9)

(***************************************************************************)
(* C12: the yes/no prompt returns on the first line read whose first       *)
(* character is 'y' (true) or 'n' (false); any other line, an empty line   *)
(* and a failed read are followed by another read, and no answer is given  *)
(* without such a line.                                                    *)
(***************************************************************************)
YesNoStep ==
    pc = "ask_first"
        => /\ FirstChar(last_read') = "y"
                 => pc' = "update" /\ msg' = PlayerSelected(TRUE)
           /\ FirstChar(last_read') = "n"
                 => pc' = "update" /\ msg' = PlayerSelected(FALSE)
           /\ FirstChar(last_read') \notin {"y", "n"}
                 => pc' = "ask_first" /\ msg' = msg /\ model' = model

C12_YesNoPrompt == [][YesNoStep]_vars

C12_Witness ==
    /\ pc = "update"
    /\ msg = PlayerSelected(FALSE)
    /\ last_read = Ok(<<"n", "\n">>)

(***************************************************************************)
(* C13: the cell-choice prompt returns only on a line whose first          *)
(* character is a digit naming an available cell, and returns that index;  *)
(* every other read is followed by another read.  So the CellClicked(i)    *)
(* that view hands to update names an Unfilled cell of the board.          *)
(***************************************************************************)
NamesAvailable(read, board) ==
    /\ FirstChar(read) \in DOMAIN DigitValue
    /\ DigitValue[FirstChar(read)] \in Indices
    /\ board[DigitValue[FirstChar(read)]] = Unfilled

MoveStep ==
    /\ pc = "ask_move"
          => IF NamesAvailable(last_read', model.board)
             THEN /\ pc' = "update"
                  /\ msg' = CellClicked(DigitValue[FirstChar(last_read')])
             ELSE pc' = "ask_move" /\ msg' = msg /\ model' = model
    /\ (pc' = "update" /\ msg'[1] = "CellClicked")
          => /\ msg'[2] \in Indices
             /\ model'.board[msg'[2]] = Unfilled

C13_MovePrompt == [][MoveStep]_vars

C13_Witness ==
    /\ pc = "update"
    /\ msg = CellClicked(4)
    /\ last_read = Ok(<<"4", "8", "\n">>)
    /\ Cardinality(get_available_cells(model.board)) = 2

(***************************************************************************)
(* C15: when the user's move fills the last Unfilled cell, update makes no *)
(* computer move: the returned board is the board with the user's mark,    *)
(* and the status is Draw when no line is completed.                       *)
(***************************************************************************)
C15_NoMoveOnFullBoard ==
    (AfterClick /\ Full(AfterUserMark.board))
        => /\ model.board = AfterUserMark.board
           /\ Changed(prev.board, model.board) = {msg[2]}
           /\ ~AnyCompleted(model.board) => model.status = Draw

C15_Witness ==
    /\ AfterClick
    /\ Full(AfterUserMark.board)
    /\ model.status = Draw

(***************************************************************************)
(* C16: a computer move marks a cell that was Unfilled before it, every    *)
(* Unfilled cell can be the one it marks, the user's moves write Nought    *)
(* when first_player = User and Cross otherwise, and the computer's moves  *)
(* write the other mark.                                                   *)
(***************************************************************************)
\* the board the computer move of update(model, msg) starts from
BeforeComputerMove ==
    IF msg[1] = "CellClicked"
    THEN update_board_with_user_move(model, msg[2]).board
    ELSE model.board

C16_ComputerMoves ==
    /\ (pc = "loop" /\ updates > 0)
          => LET user_cells == IF msg[1] = "CellClicked" THEN {msg[2]} ELSE {}
                 computer_cells == Changed(prev.board, model.board) \ user_cells
             IN  /\ Cardinality(computer_cells) <= 1
                 /\ \A i \in computer_cells :
                       /\ prev.board[i] = Unfilled
                       /\ model.board[i] =
                             (IF model.first_player = Some(User)
                              THEN Cross ELSE Nought)
                 /\ \A i \in user_cells :
                       model.board[i] =
                          (IF model.first_player = Some(User)
                           THEN Nought ELSE Cross)
    /\ (pc = "update" /\ msg # PlayerSelected(TRUE))
          => \A i \in Indices :
                BeforeComputerMove[i] = Unfilled
                   => \E new_model \in update(model, msg) :
                         /\ new_model.board[i] # Unfilled
                         /\ Changed(BeforeComputerMove, new_model.board) = {i}

C16_Witness ==
    /\ AfterClick
    /\ model.first_player = Some(Computer)
    /\ \E i \in Indices \ {msg[2]} :
          prev.board[i] = Unfilled /\ model.board[i] = Nought
    /\ model.board[msg[2]] = Cross

(***************************************************************************)
(* C17: when a move of the user completes a line of the user's mark, the   *)
(* update ends the game with status Settled(User).                         *)
(***************************************************************************)
C17_UserLineWins ==
    (AfterClick /\ Completed(AfterUserMark.board, UserMark(prev)))
        => model.status = Settled(User)

(***************************************************************************)
(* C18: whenever view prompts for a move the board has an Unfilled cell,   *)
(* so the available set of the prompt is not empty and some line answers   *)
(* the prompt.                                                             *)
(***************************************************************************)
C18_PromptAnswerable ==
    pc = "ask_move"
        => /\ model.status = NotFinished
           /\ model.first_player # None
           /\ \E i \in Indices : model.board[i] = Unfilled
           /\ get_available_cells(model.board) # {}
           /\ \E read \in InputLines :
                 ask_move_step(get_available_cells(model.board), read) # Retry

C18_Witness ==
    /\ pc = "ask_move"
    /\ Cardinality({i \in Indices : model.board[i] = Unfilled}) = 1

(***************************************************************************)
(* C19: at the top of the loop the number of Nought cells minus the number *)
(* of Cross cells is 0 or 1: 1 after each update when first_player =       *)
(* Computer; with first_player = User it is 0, or 1 when the user's move   *)
(* filled the board.                                                       *)
(***************************************************************************)
Count(board, mark) == Cardinality({i \in Indices : board[i] = mark})

MarkDifference == Count(model.board, Nought) - Count(model.board, Cross)

C19_MarkDifference ==
    pc = "loop"
        => /\ MarkDifference \in {0, 1}
           /\ (updates > 0 /\ model.first_player = Some(Computer))
                 => MarkDifference = 1
           /\ (updates > 0 /\ model.first_player = Some(User))
                 => MarkDifference =
                       (IF msg[1] = "CellClicked" /\ Full(AfterUserMark.board)
                        THEN 1 ELSE 0)

C19_Witness ==
    /\ AfterClick
    /\ model.first_player = Some(User)
    /\ Full(AfterUserMark.board)
    /\ MarkDifference = 1
====
